---- MODULE Spec2Model ----
(***************************************************************************)
(* A model of bot.py, the Telegram console of a WooCommerce store: the     *)
(* settings record (bot_data) and its file settings.json, the per-user     *)
(* awaiting flags (user_data), the command / callback / text handlers, the *)
(* low-stock monitor job and the paginated formatters.                     *)
(*                                                                         *)
(* A handler is one action.  What it read from the store and what it sent  *)
(* is kept in `last`: the replies it attempted (out), the store API calls  *)
(* it issued (calls), the number of writes of settings.json (writes) and   *)
(* whether it ended with an exception that left the handler (err).         *)
(* The store and the chat transport are the environment: every store call  *)
(* may fail or return any record of the bounded sets below, every send may *)
(* raise.  A key that bot_data lacks reads as the default that every       *)
(* .get() of the source gives it, so bot_data is a total record.           *)
(* Strings the code parses are sequences of one-character strings.         *)
(***************************************************************************)
EXTENDS Integers, Sequences, FiniteSets, TLC

VARIABLES
    proc,       \* "down", or "up" once main() runs the polling loop
    scheduled,  \* the job queue holds the repeating check_low_stock job
    bot_data,   \* context.bot_data, the settings record in memory
    file,       \* settings.json
    user_data,  \* context.user_data of each sender: the awaiting flags
    last,       \* the handler that just ran and what it did; idle between
    hist,       \* the toggle callback applied by the previous handler, if any
    sendFails,  \* sends that raised since the process started
    fmt,        \* the formatter call just made and its result
    config,     \* the environment variables that are set (.env)
    muted,      \* history: the last toggle_low_stock turned the alerts off
    mon         \* the monitor job taken step by step: where it is, what it
                \* has read of bot_data and what it has sent

vars == <<proc, scheduled, bot_data, file, user_data, last, hist, sendFails, fmt,
          config, muted, mon>>

(***************************** bounds **************************************)
\* the longest product list a fetch returns
MaxProducts == 2
\* the longest run of consecutive failures of the store API
MaxFails == 4
\* the sends of the chat transport that raise in one run of the process
MaxSendFail == 1
\* the longest list handed to a paginated formatter
MaxRecords == 11
\* the largest page index asked of a paginated formatter
MaxPage == 3

(************************** configuration **********************************)
\* ADMIN_IDS of the environment, and one sender outside it
AdminIds == {1}
Users == {1, 2}

\* None where the code holds a string: the empty string is as falsy
None == <<>>

(****************************** strings ************************************)
Digits == {"0", "1", "2", "3", "4", "5", "6", "7", "8", "9"}

DigitVal(c) ==
    CASE c = "0" -> 0 [] c = "1" -> 1 [] c = "2" -> 2 [] c = "3" -> 3
      [] c = "4" -> 4 [] c = "5" -> 5 [] c = "6" -> 6 [] c = "7" -> 7
      [] c = "8" -> 8 [] c = "9" -> 9

DigitChar(d) ==
    CASE d = 0 -> "0" [] d = 1 -> "1" [] d = 2 -> "2" [] d = 3 -> "3"
      [] d = 4 -> "4" [] d = 5 -> "5" [] d = 6 -> "6" [] d = 7 -> "7"
      [] d = 8 -> "8" [] d = 9 -> "9"

RECURSIVE DigitsVal(_)
DigitsVal(s) ==
    IF s = <<>> THEN 0
    ELSE 10 * DigitsVal(SubSeq(s, 1, Len(s) - 1)) + DigitVal(s[Len(s)])

AllDigits(s) == s # <<>> /\ \A i \in DOMAIN s : s[i] \in Digits

\* int(text): an optional sign and decimal digits; anything else raises
\* ValueError (ok = FALSE)
ParseInt(s) ==
    IF AllDigits(s) THEN [ok |-> TRUE, val |-> DigitsVal(s)]
    ELSE IF s # <<>> /\ s[1] = "-" /\ AllDigits(Tail(s))
         THEN [ok |-> TRUE, val |-> 0 - DigitsVal(Tail(s))]
    ELSE IF s # <<>> /\ s[1] = "+" /\ AllDigits(Tail(s))
         THEN [ok |-> TRUE, val |-> DigitsVal(Tail(s))]
    ELSE [ok |-> FALSE, val |-> 0]

RECURSIVE StrNat(_)
StrNat(n) ==
    IF n < 10 THEN <<DigitChar(n)>>
    ELSE Append(StrNat(n \div 10), DigitChar(n % 10))

\* str(n) of an integer
StrInt(n) == IF n < 0 THEN <<"-">> \o StrNat(0 - n) ELSE StrNat(n)

UpperChar(c) ==
    CASE c = "e" -> "E" [] c = "u" -> "U" [] c = "r" -> "R"
      [] c = "s" -> "S" [] c = "d" -> "D" [] c = "i" -> "I"
      [] c = "t" -> "T" [] c = "x" -> "X"
      [] OTHER -> c

\* text.upper()
Upper(s) == [i \in DOMAIN s |-> UpperChar(s[i])]

USD == <<"U", "S", "D">>
EUR == <<"E", "U", "R">>
IRR == <<"I", "R", "R">>
IRT == <<"I", "R", "T">>

\* the keys of CURRENCY_SYMBOLS
CURRENCY_SYMBOLS == {USD, EUR, IRR, IRT}

\* the free-text messages a user sends
Texts == { <<"1">>, <<"-", "1">>, <<"e", "u", "r">>, <<"x">> }

(**************************** the store ************************************)
\* stock_quantity of a product: null (stock not managed), written <<>>, or
\* a number n, written <<n>>
Null == <<>>
Qty(n) == <<n>>
StockVals == {Null, Qty(1), Qty(6)}

\* the product lists a fetch returns: products 1..n in the store's order,
\* each with any stock_quantity
ProductLists ==
    UNION { [1..n -> StockVals] : n \in 0..MaxProducts }

Product(pl, i) == [id |-> i, stock |-> pl[i]]

Products(pl) == [i \in DOMAIN pl |-> Product(pl, i)]

\* what fetch_products() returns: None (ok = FALSE) on any failure, else the
\* list of product records
Fetched(pl) == [ok |-> TRUE, list |-> Products(pl)]
FetchNone == [ok |-> FALSE, list |-> <<>>]

(**************************** settings *************************************)
DefaultSettings ==
    [ is_running          |-> FALSE,
      notify_low_stock    |-> TRUE,
      notify_new_orders   |-> TRUE,
      low_stock_threshold |-> 5,
      watched_product_id  |-> None,
      language            |-> "en",
      currency            |-> USD ]

NoFlags ==
    [ awaiting_threshold     |-> FALSE,
      awaiting_watch_product |-> FALSE,
      awaiting_currency      |-> FALSE ]

\* settings.json: absent, or the record last written
NoFile == [exists |-> FALSE, rec |-> DefaultSettings]

\* load_settings(): the record of settings.json, {} when there is no file
load_settings == IF file.exists THEN file.rec ELSE DefaultSettings

\* save_settings(bot_data): the seven fields, each read with its default
save_settings(bd) ==
  [ exists |-> TRUE, rec |->
    [ is_running          |-> bd.is_running,
      notify_low_stock    |-> bd.notify_low_stock,
      notify_new_orders   |-> bd.notify_new_orders,
      low_stock_threshold |-> bd.low_stock_threshold,
      watched_product_id  |-> bd.watched_product_id,
      language            |-> bd.language,
      currency            |-> bd.currency ] ]

(************************ what a handler did *******************************)
\* a message handed to the chat transport: its text (key), the products it
\* lists, and whether the send succeeded (a failed send raises)
\* buttons: the callback data of the inline buttons it carries, each the
\* parts between the underscores after the first
Msg(key, items, ok) ==
    [key |-> key, items |-> items, buttons |-> <<>>, ok |-> ok]

Sent(key, ok) == <<Msg(key, <<>>, ok)>>

SentButtons(key, buttons, ok) == <<[Msg(key, <<>>, ok) EXCEPT !.buttons = buttons]>>

\* a request to the store: verb, collection, the id and the variation id in
\* the endpoint (<<>> when absent), the payload, and whether it succeeded
NoBody == [price |-> <<>>, stock |-> <<>>, status |-> <<>>]

Call(verb, res, id, vid, body, ok) ==
    [verb |-> verb, res |-> res, id |-> id, vid |-> vid, body |-> body, ok |-> ok]

Get(res, id, ok) == Call("GET", res, id, <<>>, NoBody, ok)

\* what the environment gave the handler: the number of consecutive
\* failures of the store and the product list behind them; the type of the
\* product looked up (kind) and the length of the list returned (n)
NoEnv == [fails |-> 0, pl |-> <<>>, kind |-> "", n |-> 0]

Env(fails, pl) == [NoEnv EXCEPT !.fails = fails, !.pl = pl]

EnvKind(kind, n) == [NoEnv EXCEPT !.kind = kind, !.n = n]

\* ack: what became of `await query.answer()` of a callback: "none" (not a
\* callback), "ok", "failed" (it raised)
Eff(op, sender, data, env, out, calls, writes, err) ==
    [ op |-> op, sender |-> sender, data |-> data, args |-> <<>>, env |-> env,
      ack |-> "none", out |-> out, calls |-> calls, writes |-> writes,
      err |-> err ]

\* args: the arguments of a command, or the parts of a callback's data
WithArgs(e, args) == [e EXCEPT !.args = args]

Answered(e) == [e EXCEPT !.ack = "ok"]

\* between two handlers
IdleEff == Eff("idle", 0, <<>>, NoEnv, <<>>, <<>>, 0, FALSE)

Idle == last.op = "idle"

NoHist == [token |-> "", before |-> FALSE, writes |-> 0]

Count(seq, key) == Cardinality({i \in DOMAIN seq : seq[i].key = key})

\* the outcomes a send may have: it raises only while the transport's
\* failures are not used up
SendOutcomes == IF sendFails < MaxSendFail THEN BOOLEAN ELSE {TRUE}

SendFailed(e) == e.ack = "failed" \/ \E i \in DOMAIN e.out : ~e.out[i].ok

\* the handler is over: e is what it did
Handled(e) ==
    /\ last' = e
    /\ sendFails' = IF SendFailed(e) THEN sendFails + 1 ELSE sendFails

(*************************** authorization *********************************)
\* a faulty check_admin: every sender passes
IsAdmin_Everyone(u) == TRUE

\* check_admin: the sender is in ADMIN_IDS
IsAdmin(u) == AdminIds # {} /\ u \in AdminIds

(***************************** formatters ***********************************)
\* per_page=5, the default of the three paginated formatters
PerPage == 5

NoPage == [kind |-> "", entries |-> <<>>, footer |-> <<0, 0>>,
           vars |-> <<>>, nav |-> <<>>, markup |-> FALSE]

Button(label, target) == [label |-> label, target |-> target]

Min(a, b) == IF a < b THEN a ELSE b

\* seq[start:end] of Python, indices from 0, end exclusive, both clipped
Slice(seq, start, end) ==
    IF start >= Len(seq) THEN <<>>
    ELSE SubSeq(seq, start + 1, Min(end, Len(seq)))

\* a faulty page count: floor division
TotalPages_Floor(n, per_page) == n \div per_page

\* (len(records) + per_page - 1) // per_page
TotalPages(n, per_page) == (n + per_page - 1) \div per_page

\* a faulty pagination row: Next is offered on a full last page
NavRow_NextOnFull(n, page, end_idx) ==
    (IF page > 0 THEN <<Button("Previous", page - 1)>> ELSE <<>>)
    \o (IF end_idx <= n THEN <<Button("Next", page + 1)>> ELSE <<>>)

\* the Previous / Next row of a page
NavRow(n, page, end_idx) ==
    (IF page > 0 THEN <<Button("Previous", page - 1)>> ELSE <<>>)
    \o (IF end_idx < n THEN <<Button("Next", page + 1)>> ELSE <<>>)

\* format_products(products, page, per_page): text and reply_markup.
\* kind: "empty" (No products found.), "no_more" (No more products to
\* show.) or "page"; entries: the records listed; footer: <<page + 1,
\* total_pages>>; vars: the products given a Variations button; nav: the
\* pagination row; markup: reply_markup is not None.
format_products(products, page, per_page) ==
    LET start_idx == page * per_page
        end_idx   == start_idx + per_page
        subset    == Slice(products, start_idx, end_idx)
        var_rows  == SelectSeq(subset, LAMBDA p : p.type = "variable")
        nav       == NavRow(Len(products), page, end_idx)
    IN
    IF products = <<>> THEN [NoPage EXCEPT !.kind = "empty"]
    ELSE IF start_idx >= Len(products) THEN [NoPage EXCEPT !.kind = "no_more"]
    ELSE [ kind |-> "page", entries |-> subset,
           footer |-> <<page + 1, TotalPages(Len(products), per_page)>>,
           vars |-> var_rows, nav |-> nav,
           markup |-> (var_rows # <<>> \/ nav # <<>>) ]

\* format_orders(orders, page, per_page)
format_orders(orders, page, per_page) ==
    LET start_idx == page * per_page
        end_idx   == start_idx + per_page
        nav == (IF page > 0 THEN <<Button("Previous", page - 1)>> ELSE <<>>)
               \o (IF end_idx < Len(orders)
                   THEN <<Button("Next", page + 1)>> ELSE <<>>)
    IN
    IF orders = <<>> THEN [NoPage EXCEPT !.kind = "empty"]
    ELSE IF start_idx >= Len(orders) THEN [NoPage EXCEPT !.kind = "no_more"]
    ELSE [ kind |-> "page", entries |-> Slice(orders, start_idx, end_idx),
           footer |-> <<page + 1, (Len(orders) + per_page - 1) \div per_page>>,
           vars |-> <<>>, nav |-> nav, markup |-> nav # <<>> ]

\* format_customers(customers, page, per_page)
format_customers(customers, page, per_page) ==
    LET start_idx == page * per_page
        end_idx   == start_idx + per_page
        nav == (IF page > 0 THEN <<Button("Previous", page - 1)>> ELSE <<>>)
               \o (IF end_idx < Len(customers)
                   THEN <<Button("Next", page + 1)>> ELSE <<>>)
    IN
    IF customers = <<>> THEN [NoPage EXCEPT !.kind = "empty"]
    ELSE IF start_idx >= Len(customers) THEN [NoPage EXCEPT !.kind = "no_more"]
    ELSE [ kind |-> "page", entries |-> Slice(customers, start_idx, end_idx),
           footer |-> <<page + 1, (Len(customers) + per_page - 1) \div per_page>>,
           vars |-> <<>>, nav |-> nav, markup |-> nav # <<>> ]

\* the records handed to a formatter: ids 1..n; the products of `variable`
\* are of type "variable"
Record(i, variable) ==
    [id |-> i, type |-> IF i \in variable THEN "variable" ELSE "simple"]

Records(n, variable) == [i \in 1..n |-> Record(i, variable)]

VariableSets == { {}, {1}, {2, 6} }

NoFmt == [fn |-> "", n |-> 0, variable |-> {}, page |-> 0, res |-> NoPage]

(***************************** startup *************************************)
\* the values read with os.getenv
ConfigKeys ==
    { "TELEGRAM_BOT_TOKEN", "WOOCOMMERCE_API_KEY", "WOOCOMMERCE_API_SECRET",
      "WOOCOMMERCE_STORE_URL", "ADMIN_IDS", "TELEGRAM_CHAT_ID" }

\* the monitor job is not running
NoMon == [pc |-> "idle", reads |-> <<>>, out |-> <<>>]

Init ==
    /\ proc = "down"
    /\ scheduled = FALSE
    /\ bot_data = DefaultSettings
    /\ file = NoFile
    /\ user_data = [u \in Users |-> NoFlags]
    /\ last = IdleEff
    /\ hist = NoHist
    /\ sendFails = 0
    /\ fmt = NoFmt
    /\ config = ConfigKeys
    /\ muted = FALSE
    /\ mon = NoMon

\* main(): the job is scheduled only when the loaded record is not running
ScheduleOnStart(loaded) == ~loaded.is_running

\* a faulty main(): the job is scheduled but the bot is not marked running
Main_Unmarked ==
    /\ proc = "down"
    /\ Idle
    /\ \E apiOk \in BOOLEAN :
         LET loaded == load_settings IN
         /\ bot_data' = loaded
         /\ scheduled' = ScheduleOnStart(loaded)
         /\ Handled(Eff("main", 0, <<>>, NoEnv, <<>>,
                        <<Get("products", <<>>, apiOk)>>, 0, FALSE))
    /\ proc' = "up"
    /\ hist' = NoHist
    /\ UNCHANGED <<file, user_data, fmt, config, muted, mon>>

\* main(): load settings.json into bot_data, mark the bot running, schedule
\* the monitor, test the store connection and start polling
Main ==
    /\ proc = "down"
    /\ Idle
    /\ \E apiOk \in BOOLEAN :
         LET loaded == load_settings IN
         /\ bot_data' = [loaded EXCEPT !.is_running = TRUE]
         /\ scheduled' = ScheduleOnStart(loaded)
         /\ Handled(Eff("main", 0, <<>>, NoEnv, <<>>,
                        <<Get("products", <<>>, apiOk)>>, 0, FALSE))
    /\ proc' = "up"
    /\ hist' = NoHist
    /\ UNCHANGED <<file, user_data, fmt, config, muted, mon>>

\* the process ends: bot_data, user_data and the job queue are lost, the
\* file stays
Stop ==
    /\ proc = "up"
    /\ Idle
    /\ proc' = "down"
    /\ scheduled' = FALSE
    /\ bot_data' = DefaultSettings
    /\ user_data' = [u \in Users |-> NoFlags]
    /\ last' = Eff("stop", 0, <<>>, NoEnv, <<>>, <<>>, 0, FALSE)
    /\ sendFails' = 0
    /\ hist' = NoHist
    /\ UNCHANGED <<file, fmt, config, muted, mon>>

\* the handler has returned to the dispatcher, which takes the next update
HandlerDone ==
    /\ ~Idle
    /\ last' = IdleEff
    /\ UNCHANGED <<proc, scheduled, bot_data, file, user_data, hist, sendFails,
                   fmt, config, muted, mon>>

\* a handler is running: the process polls and no other handler runs
Running == proc = "up" /\ Idle

\* what a handler that changes no setting leaves alone
ReadOnly ==
    /\ hist' = NoHist
    /\ UNCHANGED <<proc, scheduled, bot_data, file, user_data, fmt, config, muted, mon>>

(************************* the low-stock monitor ***************************)
\* the retries of check_low_stock: `while products is None and attempts < 3`
MaxRetries == 3

\* the i-th fetch_products() of a handler, when the store fails `fails`
\* times in a row and then returns pl
FetchAt(fails, pl, i) == IF i <= fails THEN FetchNone ELSE Fetched(pl)

\* products = fetch_products(); attempts = 0;
\* while products is None and attempts < 3: fetch again, attempts += 1
RECURSIVE RetryLoop(_, _, _, _)
RetryLoop(fails, pl, products, attempts) ==
    IF ~products.ok /\ attempts < MaxRetries
    THEN RetryLoop(fails, pl, FetchAt(fails, pl, attempts + 2), attempts + 1)
    ELSE [products |-> products, attempts |-> attempts]

FetchWithRetry(fails, pl) == RetryLoop(fails, pl, FetchAt(fails, pl, 1), 0)

\* the store calls of a cycle that ended after `attempts` retries
FetchCalls(fails, pl, attempts) ==
    [i \in 1..(attempts + 1) |-> Get("products", <<>>, FetchAt(fails, pl, i).ok)]

\* a faulty threshold test: the boundary is left out
IsLowStock_Strict(p, threshold) ==
    p.stock # Null /\ p.stock[1] < threshold

\* p.get('stock_quantity') is not None and p.get('stock_quantity') <= threshold
IsLowStock(p, threshold) ==
    p.stock # Null /\ p.stock[1] <= threshold

\* the list comprehension of the threshold sweep, in fetch order
LowStockProducts(products, threshold) ==
    SelectSeq(products, LAMBDA p : IsLowStock(p, threshold))

InSeq(x, seq) == \E i \in DOMAIN seq : seq[i] = x

\* next((p for p in products if str(p['id']) == str(watched_product_id)), None):
\* the index of the first match, 0 when there is none
WatchedIndex(products, watched) ==
    IF \E i \in DOMAIN products : StrInt(products[i].id) = watched
    THEN CHOOSE i \in DOMAIN products :
           /\ StrInt(products[i].id) = watched
           /\ \A j \in 1..(i - 1) : StrInt(products[j].id) # watched
    ELSE 0

\* a faulty watched-product step: the product is appended without the test
AddWatched_NoTest(low, wp) == Append(low, wp)

\* low_stock_products.append(wp) if wp not in low_stock_products else None
AddWatched(low, wp) == IF InSeq(wp, low) THEN low ELSE Append(low, wp)

\* the watched-product step: [raised, low].  Comparing a null stock_quantity
\* with the threshold raises TypeError, which ends the cycle.
WatchedStep(products, low, watched, threshold) ==
    LET i == WatchedIndex(products, watched) IN
    IF watched = None \/ i = 0 THEN [raised |-> FALSE, low |-> low]
    ELSE IF products[i].stock = Null THEN [raised |-> TRUE, low |-> low]
    ELSE IF products[i].stock[1] <= threshold
         THEN [raised |-> FALSE, low |-> AddWatched(low, products[i])]
    ELSE [raised |-> FALSE, low |-> low]

\* check_low_stock, one run of the job.  data is <<"off">> when the cycle
\* returned at its first test, <<"on">> otherwise.
check_low_stock ==
    /\ Running
    /\ scheduled
    /\ IF ~bot_data.is_running \/ ~bot_data.notify_low_stock
       THEN Handled(Eff("check_low_stock", 0, <<"off">>, NoEnv, <<>>, <<>>, 0, FALSE))
       ELSE \E fails \in 0..MaxFails, pl \in ProductLists, sendOk \in SendOutcomes :
              LET r     == FetchWithRetry(fails, pl)
                  calls == FetchCalls(fails, pl, r.attempts)
                  env   == Env(fails, pl)
                  thr   == bot_data.low_stock_threshold
                  sweep == LowStockProducts(r.products.list, thr)
                  w     == WatchedStep(r.products.list, sweep,
                                       bot_data.watched_product_id, thr)
              IN
              IF ~r.products.ok
              THEN /\ pl = <<>>
                   /\ Handled(Eff("check_low_stock", 0, <<"on">>, env,
                                  Sent("api_error", sendOk), calls, 0, ~sendOk))
              ELSE IF w.raised
              THEN /\ sendOk
                   /\ Handled(Eff("check_low_stock", 0, <<"on">>, env, <<>>,
                                  calls, 0, TRUE))
              ELSE IF w.low # <<>>
              THEN Handled(Eff("check_low_stock", 0, <<"on">>, env,
                               <<Msg("low_stock_alert", w.low, sendOk)>>,
                               calls, 0, FALSE))
              ELSE /\ sendOk
                   /\ Handled(Eff("check_low_stock", 0, <<"on">>, env, <<>>,
                                  calls, 0, FALSE))
    /\ ReadOnly

(************************** the button handler ******************************)
\* the callback tokens that change or prompt for a setting
SettingsTokens ==
    { "toggle_low_stock", "toggle_new_orders", "set_threshold",
      "watch_product", "set_currency", "toggle_lang" }

\* button: `await query.answer()` raised; nothing else of the handler ran
ButtonAnswerFails(u, cb) ==
    /\ Running
    /\ FALSE \in SendOutcomes
    /\ Handled([Eff("button", u, <<cb[1]>>, NoEnv, <<>>, <<>>, 0, TRUE)
                  EXCEPT !.ack = "failed", !.args = cb[2]])
    /\ ReadOnly

\* button: check_admin refused the sender
ButtonDenied(u, cb) ==
    /\ Running
    /\ ~IsAdmin(u)
    /\ \E ok \in SendOutcomes :
         Handled(Answered(WithArgs(
           Eff("button", u, <<cb[1]>>, NoEnv, Sent("not_authorized", ok),
               <<>>, 0, ~ok), cb[2])))
    /\ ReadOnly

Flip(b) == ~b

\* a faulty toggle: one switch for both notifications
ButtonToggle_Both(u, token, field) ==
    /\ Running
    /\ IsAdmin(u)
    /\ \E ok \in SendOutcomes :
         LET bd == [bot_data EXCEPT !.notify_low_stock = Flip(@),
                                    !.notify_new_orders = Flip(@)] IN
         /\ bot_data' = bd
         /\ file' = IF ok THEN save_settings(bd) ELSE file
         /\ Handled(Answered(Eff("button", u, <<token>>, NoEnv, Sent(token, ok),
                                 <<>>, IF ok THEN 1 ELSE 0, ~ok)))
         /\ hist' = [token |-> token, before |-> bot_data[field],
                     writes |-> IF ok THEN 1 ELSE 0]
    /\ UNCHANGED <<proc, scheduled, user_data, fmt, config, mon>>

\* button, toggle_low_stock / toggle_new_orders: flip, reply, save (the
\* history variable muted is left to the specification)
ButtonToggle(u, token, field) ==
    /\ Running
    /\ IsAdmin(u)
    /\ \E ok \in SendOutcomes :
         LET bd == [bot_data EXCEPT ![field] = Flip(@)] IN
         /\ bot_data' = bd
         /\ file' = IF ok THEN save_settings(bd) ELSE file
         /\ Handled(Answered(Eff("button", u, <<token>>, NoEnv, Sent(token, ok),
                                 <<>>, IF ok THEN 1 ELSE 0, ~ok)))
         /\ hist' = [token |-> token, before |-> bot_data[field],
                     writes |-> IF ok THEN 1 ELSE 0]
    /\ UNCHANGED <<proc, scheduled, user_data, fmt, config, mon>>

\* button, toggle_lang: switch en / fa, reply in the new language, save
ButtonToggleLang(u) ==
    /\ Running
    /\ IsAdmin(u)
    /\ \E ok \in SendOutcomes :
         LET new_lang == IF bot_data.language = "en" THEN "fa" ELSE "en"
             bd == [bot_data EXCEPT !.language = new_lang] IN
         /\ bot_data' = bd
         /\ file' = IF ok THEN save_settings(bd) ELSE file
         /\ Handled(Answered(Eff("button", u, <<"toggle_lang">>, NoEnv,
                                 Sent("lang_set", ok), <<>>,
                                 IF ok THEN 1 ELSE 0, ~ok)))
    /\ hist' = NoHist
    /\ UNCHANGED <<proc, scheduled, user_data, fmt, config, muted, mon>>

\* context.user_data[flag] = True
Prompt(flags, flag) == [flags EXCEPT ![flag] = TRUE]

\* button, set_threshold / watch_product / set_currency: prompt, then set
\* the awaiting flag
ButtonPrompt(u, token, key, flag) ==
    /\ Running
    /\ IsAdmin(u)
    /\ \E ok \in SendOutcomes :
         /\ user_data' = IF ok
                         THEN [user_data EXCEPT ![u] = Prompt(@, flag)]
                         ELSE user_data
         /\ Handled(Answered(Eff("button", u, <<token>>, NoEnv, Sent(key, ok),
                                 <<>>, 0, ~ok)))
    /\ hist' = NoHist
    /\ UNCHANGED <<proc, scheduled, bot_data, file, fmt, config, muted, mon>>

(*************************** free-text messages *****************************)
\* handle_text: check_admin refused the sender
TextDenied(u, text) ==
    /\ Running
    /\ ~IsAdmin(u)
    /\ \E ok \in SendOutcomes :
         Handled(Eff("handle_text", u, text, NoEnv, Sent("not_authorized", ok),
                     <<>>, 0, ~ok))
    /\ ReadOnly

\* a faulty threshold check: negative numbers pass
ThresholdValid_AnyInt(r) == r.ok

\* threshold = int(text); if threshold < 0: raise ValueError
ThresholdValid(r) == r.ok /\ r.val >= 0

\* handle_text with awaiting_threshold set
TextThreshold(u, text) ==
    /\ Running
    /\ IsAdmin(u)
    /\ user_data[u].awaiting_threshold
    /\ \E ok \in SendOutcomes :
         LET r == ParseInt(text) IN
         IF ThresholdValid(r)
         THEN LET bd == [bot_data EXCEPT !.low_stock_threshold = r.val] IN
              /\ bot_data' = bd
              /\ file' = IF ok THEN save_settings(bd) ELSE file
              /\ user_data' = IF ok
                              THEN [user_data EXCEPT ![u].awaiting_threshold = FALSE]
                              ELSE user_data
              /\ Handled(Eff("handle_text", u, text, NoEnv,
                             Sent("threshold_set", ok), <<>>,
                             IF ok THEN 1 ELSE 0, ~ok))
         ELSE /\ Handled(Eff("handle_text", u, text, NoEnv,
                             Sent("threshold_error", ok), <<>>, 0, ~ok))
              /\ UNCHANGED <<bot_data, file, user_data>>
    /\ hist' = NoHist
    /\ UNCHANGED <<proc, scheduled, fmt, config, muted, mon>>

\* products and any(p['id'] == product_id for p in products)
ProductKnown(products, product_id) ==
    /\ products.ok
    /\ products.list # <<>>
    /\ \E i \in DOMAIN products.list : products.list[i].id = product_id

\* handle_text with awaiting_watch_product set (and awaiting_threshold not)
TextWatchProduct(u, text) ==
    /\ Running
    /\ IsAdmin(u)
    /\ ~user_data[u].awaiting_threshold
    /\ user_data[u].awaiting_watch_product
    /\ LET r == ParseInt(text) IN
       IF ~r.ok
       THEN /\ \E ok \in SendOutcomes :
                 Handled(Eff("handle_text", u, text, NoEnv,
                             Sent("watch_error", ok), <<>>, 0, ~ok))
            /\ UNCHANGED <<bot_data, file, user_data>>
       ELSE \E fails \in 0..1, pl \in ProductLists, ok \in SendOutcomes :
              LET products == FetchAt(fails, pl, 1)
                  env   == Env(fails, pl)
                  calls == <<Get("products", <<>>, products.ok)>> IN
              /\ ~products.ok => pl = <<>>
              /\ IF ProductKnown(products, r.val)
                 THEN LET bd == [bot_data EXCEPT
                                   !.watched_product_id = StrInt(r.val)] IN
                      /\ bot_data' = bd
                      /\ file' = IF ok THEN save_settings(bd) ELSE file
                      /\ user_data' =
                           IF ok
                           THEN [user_data EXCEPT
                                   ![u].awaiting_watch_product = FALSE]
                           ELSE user_data
                      /\ Handled(Eff("handle_text", u, text, env,
                                     Sent("watch_set", ok), calls,
                                     IF ok THEN 1 ELSE 0, ~ok))
                 ELSE /\ Handled(Eff("handle_text", u, text, env,
                                     Sent("watch_error", ok), calls, 0, ~ok))
                      /\ UNCHANGED <<bot_data, file, user_data>>
    /\ hist' = NoHist
    /\ UNCHANGED <<proc, scheduled, fmt, config, muted, mon>>

\* a faulty currency test: any word passes
CurrencyValid_AnyWord(currency) == TRUE

\* currency in CURRENCY_SYMBOLS
CurrencyValid(currency) == currency \in CURRENCY_SYMBOLS

\* handle_text with awaiting_currency set (and the other two flags not)
TextCurrency(u, text) ==
    /\ Running
    /\ IsAdmin(u)
    /\ ~user_data[u].awaiting_threshold
    /\ ~user_data[u].awaiting_watch_product
    /\ user_data[u].awaiting_currency
    /\ \E ok \in SendOutcomes :
         LET currency == Upper(text) IN
         IF CurrencyValid(currency)
         THEN LET bd == [bot_data EXCEPT !.currency = currency] IN
              /\ bot_data' = bd
              /\ file' = IF ok THEN save_settings(bd) ELSE file
              /\ user_data' = IF ok
                              THEN [user_data EXCEPT ![u].awaiting_currency = FALSE]
                              ELSE user_data
              /\ Handled(Eff("handle_text", u, text, NoEnv,
                             Sent("currency_set", ok), <<>>,
                             IF ok THEN 1 ELSE 0, ~ok))
         ELSE /\ Handled(Eff("handle_text", u, text, NoEnv,
                             Sent("currency_error", ok), <<>>, 0, ~ok))
              /\ UNCHANGED <<bot_data, file, user_data>>
    /\ hist' = NoHist
    /\ UNCHANGED <<proc, scheduled, fmt, config, muted, mon>>

\* a faulty handle_text with no awaiting flag set: the text is answered
TextIgnored_Answered(u, text) ==
    /\ Running
    /\ IsAdmin(u)
    /\ ~user_data[u].awaiting_threshold
    /\ ~user_data[u].awaiting_watch_product
    /\ ~user_data[u].awaiting_currency
    /\ Handled(Eff("handle_text", u, text, NoEnv, Sent("threshold_error", TRUE),
                   <<>>, 0, FALSE))
    /\ ReadOnly

\* handle_text with no awaiting flag set: no branch is taken
TextIgnored(u, text) ==
    /\ Running
    /\ IsAdmin(u)
    /\ ~user_data[u].awaiting_threshold
    /\ ~user_data[u].awaiting_watch_product
    /\ ~user_data[u].awaiting_currency
    /\ Handled(Eff("handle_text", u, text, NoEnv, <<>>, <<>>, 0, FALSE))
    /\ ReadOnly

(******************************* words **************************************)
Dash == <<"-">>
NoneStr == <<"N", "o", "n", "e">>
W_x == <<"x">>
W_a1 == <<"a", "1">>
W_0 == <<"0">>
W_1 == <<"1">>
W_3 == <<"3">>
W_4 == <<"4">>
W_5 == <<"5">>
W_7 == <<"7">>
W_2_3 == <<"2", "-", "3">>
W_19_99 == <<"1", "9", ".", "9", "9">>
W_pending == <<"p", "e", "n", "d", "i", "n", "g">>
W_processing == <<"p", "r", "o", "c", "e", "s", "s", "i", "n", "g">>
W_completed == <<"c", "o", "m", "p", "l", "e", "t", "e", "d">>
W_cancelled == <<"c", "a", "n", "c", "e", "l", "l", "e", "d">>
W_Completed == <<"C", "o", "m", "p", "l", "e", "t", "e", "d">>
W_bogus == <<"b", "o", "g", "u", "s">>
W_order_status ==
    <<"o", "r", "d", "e", "r", "_", "s", "t", "a", "t", "u", "s">>
W_product_price ==
    <<"p", "r", "o", "d", "u", "c", "t", "_", "p", "r", "i", "c", "e">>
W_product_stock ==
    <<"p", "r", "o", "d", "u", "c", "t", "_", "s", "t", "o", "c", "k">>
W_foo == <<"f", "o", "o">>

Letters ==
    { "a", "b", "c", "d", "e", "f", "g", "i", "k", "l", "m", "n", "o", "p",
      "r", "s", "t", "u", "x", "C", "N" }

\* str.isalpha(), str.isalnum()
IsAlpha(s) == s # <<>> /\ \A i \in DOMAIN s : s[i] \in Letters
IsAlnum(s) == s # <<>> /\ \A i \in DOMAIN s : s[i] \in Letters \cup Digits

LowerChar(c) == CASE c = "C" -> "c" [] c = "N" -> "n" [] OTHER -> c

\* text.lower()
Lower(s) == [i \in DOMAIN s |-> LowerChar(s[i])]

\* the index of the first c in s, 0 when there is none
IndexOf(s, c) ==
    IF \E i \in DOMAIN s : s[i] = c
    THEN CHOOSE i \in DOMAIN s : s[i] = c /\ \A j \in 1..(i - 1) : s[j] # c
    ELSE 0

\* float(text), the value written as Python prints it: an optional sign,
\* digits, and at most one point with digits on both sides; anything else
\* raises ValueError (ok = FALSE)
ParseUFloat(s) ==
    LET d == IndexOf(s, ".") IN
    IF AllDigits(s)
    THEN [ok |-> TRUE, val |-> StrNat(DigitsVal(s)) \o <<".", "0">>]
    ELSE IF d > 0 /\ AllDigits(SubSeq(s, 1, d - 1))
              /\ AllDigits(SubSeq(s, d + 1, Len(s)))
         THEN [ok |-> TRUE,
               val |-> StrNat(DigitsVal(SubSeq(s, 1, d - 1)))
                       \o <<".">> \o SubSeq(s, d + 1, Len(s))]
    ELSE [ok |-> FALSE, val |-> <<>>]

ParseFloat(s) ==
    IF s # <<>> /\ s[1] = "-"
    THEN LET r == ParseUFloat(Tail(s)) IN
         [ok |-> r.ok, val |-> IF r.ok THEN <<"-">> \o r.val ELSE <<>>]
    ELSE ParseUFloat(s)

(***************************** store gateway ********************************)
\* the longest list of variations a product has
MaxVariations == 2

\* the variations of a variable product: ids 3, 4, ...
Variations(n) == [i \in 1..n |-> StrInt(i + 2)]

\* a faulty update_product: the request is sent whatever the payload
update_product_AlwaysPut(product_id, price, stock, variation_id, putOk) ==
    [ success |-> putOk,
      message |-> IF putOk THEN "update_successful" ELSE "update_failed",
      calls |-> <<Call("PUT", "products", product_id, variation_id,
                       [NoBody EXCEPT !.price = price, !.stock = stock],
                       putOk)>> ]

\* a faulty update_product: the payload always holds a stock, 0 when none
\* was given
update_product_StockAlways(product_id, price, stock, variation_id, putOk) ==
    [ success |-> putOk,
      message |-> IF putOk THEN "update_successful" ELSE "update_failed",
      calls |-> <<Call("PUT", "products", product_id, variation_id,
                       [NoBody EXCEPT !.price = price,
                                      !.stock = IF stock = <<>> THEN <<0>>
                                                ELSE stock],
                       putOk)>> ]

\* update_product(product_id, price, stock, variation_id): success, message
\* and the request it sent.  price and stock are <<>> for None; the payload
\* holds regular_price = str(price) and stock_quantity = int(stock) for
\* those given.
update_product(product_id, price, stock, variation_id, putOk) ==
    IF price = <<>> /\ stock = <<>>
    THEN [success |-> FALSE, message |-> "no_updates", calls |-> <<>>]
    ELSE [ success |-> putOk,
           message |-> IF putOk THEN "update_successful" ELSE "update_failed",
           calls |-> <<Call("PUT", "products", product_id, variation_id,
                            [NoBody EXCEPT !.price = price, !.stock = stock],
                            putOk)>> ]

\* update_order_status(order_id, status): the status is sent lower-cased
update_order_status(order_id, status, putOk) ==
    [ success |-> putOk,
      message |-> IF putOk THEN "status_updated" ELSE "update_failed",
      calls |-> <<Call("PUT", "orders", order_id, <<>>,
                       [NoBody EXCEPT !.status = Lower(status)], putOk)>> ]

(******************************* commands ***********************************)
Commands ==
    { "start", "settings", "stats", "bulkupdate", "help", "products", "search",
      "update", "orders", "order", "customers", "customer" }

UpdateArgs ==
    { <<>>, <<W_1>>, <<W_1, Dash, Dash>>, <<W_1, W_19_99, Dash>>,
      <<W_1, Dash, W_7>>, <<W_1, W_5, W_7>>, <<W_x>>, <<W_1, W_5, W_x>> }

BulkArgs ==
    { <<W_order_status, W_completed>>,
      <<W_order_status, W_Completed, W_7>>,
      <<W_order_status, W_bogus, W_7>>,
      <<W_product_stock, W_5, W_1, W_2_3>>,
      <<W_product_price, W_x, W_1>>,
      <<W_product_stock, W_19_99, W_1>>,
      <<W_product_price, W_5, W_1>>,
      <<W_foo, W_5, W_1>> }

ArgsOf(cmd) ==
    CASE cmd = "update" -> UpdateArgs
      [] cmd = "bulkupdate" -> BulkArgs
      [] cmd = "search" -> { <<>>, <<W_x>>, <<W_a1>> }
      [] cmd \in {"order", "customer"} -> { <<>>, <<W_x>>, <<W_7>> }
      [] OTHER -> { <<>> }

\* a command handler that changes no setting: e is what it did
Command(e, args) ==
    /\ Handled(WithArgs(e, args))
    /\ ReadOnly

\* a command handler that ends with one reply
Replied(cmd, u, args, env, key, buttons, calls) ==
    \E ok \in SendOutcomes :
      Command(Eff(cmd, u, <<cmd>>, env, SentButtons(key, buttons, ok), calls,
                  0, ~ok), args)

\* any command: check_admin refused the sender
CommandDenied(u, cmd, args) ==
    /\ Running
    /\ ~IsAdmin(u)
    /\ Replied(cmd, u, args, NoEnv, "not_authorized", <<>>, <<>>)

\* /start, /help, /settings: one reply (that of /settings carries the six
\* settings buttons)
CommandSimple(u, cmd, key) ==
    /\ Running
    /\ IsAdmin(u)
    /\ Replied(cmd, u, <<>>, NoEnv, key, <<>>, <<>>)

\* /stats: the orders, and the products when an order has line items.
\* Iterating fetch_products() when it returned None raises TypeError.
stats(u) ==
    /\ Running
    /\ IsAdmin(u)
    /\ \E ordersOk \in BOOLEAN, sales \in BOOLEAN, productsOk \in BOOLEAN :
         LET orders == Call("GET", "orders", <<>>, <<>>, NoBody, ordersOk)
             prods  == Get("products", <<>>, productsOk) IN
         IF ~ordersOk
         THEN /\ ~sales /\ productsOk
              /\ Replied("stats", u, <<>>, NoEnv, "stats_orders_failed", <<>>,
                         <<orders>>)
         ELSE IF ~sales
         THEN /\ productsOk
              /\ Replied("stats", u, <<>>, EnvKind("no_sales", 0), "stats",
                         <<>>, <<orders>>)
         ELSE IF ~productsOk
         THEN Command(Eff("stats", u, <<"stats">>, EnvKind("sales", 0), <<>>,
                          <<orders, prods>>, 0, TRUE), <<>>)
         ELSE Replied("stats", u, <<>>, EnvKind("sales", 0), "stats", <<>>,
                      <<orders, prods>>)

\* id_str.split("-"): parts[0], and parts[1] when there is one
SplitPart0(s) ==
    LET d == IndexOf(s, "-") IN IF d = 0 THEN s ELSE SubSeq(s, 1, d - 1)

SplitPart1(s) ==
    LET d == IndexOf(s, "-")
        rest == SubSeq(s, d + 1, Len(s)) IN
    IF d = 0 THEN <<>> ELSE SplitPart0(rest)

valid_statuses == {W_pending, W_processing, W_completed, W_cancelled}

\* /bulkupdate: what is checked before any request: "" when the loop over
\* the ids is entered, else the key of the one reply
BulkReject(args) ==
    IF Len(args) < 3 THEN "bulk_usage"
    ELSE IF args[1] = W_order_status
         THEN IF Lower(args[2]) \in valid_statuses THEN ""
              ELSE "bulk_invalid_status"
    ELSE IF args[1] = W_product_price
         THEN IF ParseFloat(args[2]).ok THEN "" ELSE "bulk_invalid_value"
    ELSE IF args[1] = W_product_stock
         THEN IF ParseInt(args[2]).ok THEN "" ELSE "bulk_invalid_value"
    ELSE "bulk_invalid_type"

\* /bulkupdate: the request for the k-th id
BulkOne(args, k, putOk) ==
    LET id == args[k + 2] IN
    IF args[1] = W_order_status
    THEN update_order_status(id, args[2], putOk)
    ELSE update_product(SplitPart0(id),
                        IF args[1] = W_product_price
                        THEN ParseFloat(args[2]).val ELSE <<>>,
                        IF args[1] = W_product_stock
                        THEN <<ParseInt(args[2]).val>> ELSE <<>>,
                        SplitPart1(id), putOk)

\* /bulkupdate: one request and one reply per id, in argument order; a
\* send that raises ends the handler.  puts[k] is the outcome of the k-th
\* request, sent the number of replies that went out before one raised.
bulkupdate(u, args) ==
    /\ Running
    /\ IsAdmin(u)
    /\ IF BulkReject(args) # ""
       THEN Replied("bulkupdate", u, args, NoEnv, BulkReject(args), <<>>, <<>>)
       ELSE LET k == Len(args) - 2 IN
            \E puts \in [1..k -> BOOLEAN], done \in 1..k, ok \in SendOutcomes :
              /\ ok => done = k
              /\ \A i \in (done + 1)..k : puts[i]
              /\ LET one(i) == BulkOne(args, i, puts[i]) IN
                 Command(Eff("bulkupdate", u, <<"bulkupdate">>, NoEnv,
                             [i \in 1..done |->
                                Msg(one(i).message, <<>>, i < done \/ ok)],
                             [i \in 1..done |-> one(i).calls[1]], 0, ~ok),
                         args)

\* format_products / format_search_results: a fetch of the variations of
\* every variable product shown
VariationCalls(shown, ok) ==
    LET var_rows == SelectSeq(shown, LAMBDA p : p.type = "variable") IN
    [i \in DOMAIN var_rows |->
       Call("GET", "variations", StrInt(var_rows[i].id), <<>>, NoBody, ok)]

\* /products
products(u) ==
    /\ Running
    /\ IsAdmin(u)
    /\ \E fetchOk \in BOOLEAN, n \in 0..MaxProducts, v \in {{}, {1}},
          varOk \in BOOLEAN :
         LET list == Records(n, v)
             res  == format_products(list, 0, PerPage)
             env  == EnvKind(IF v = {} THEN "simple" ELSE "variable", n) IN
         /\ (~fetchOk => n = 0)
         /\ (n = 0 => v = {})
         /\ (v = {} => varOk)
         /\ IF ~fetchOk
            THEN Replied("products", u, <<>>, NoEnv, "products_failed", <<>>,
                         <<Get("products", <<>>, FALSE)>>)
            ELSE IF n = 0
            THEN Replied("products", u, <<>>, env, "products_no_results", <<>>,
                         <<Get("products", <<>>, TRUE)>>)
            ELSE Replied("products", u, <<>>, env, "product_list", <<>>,
                         <<Get("products", <<>>, TRUE)>>
                         \o VariationCalls(res.entries, varOk))

\* search_products(query): a SKU lookup for a query of letters and digits
\* that is not all letters, a text search otherwise
SearchParam(query) ==
    IF IsAlnum(query) /\ ~IsAlpha(query) THEN "products?sku"
    ELSE "products?search"

\* /search
search(u, args) ==
    /\ Running
    /\ IsAdmin(u)
    /\ IF args = <<>>
       THEN Replied("search", u, args, NoEnv, "search_no_query", <<>>, <<>>)
       ELSE \E fetchOk \in BOOLEAN, n \in 0..1, v \in {{}, {1}}, varOk \in BOOLEAN :
              LET call == Call("GET", SearchParam(args[1]), args[1], <<>>,
                               NoBody, fetchOk)
                  env  == EnvKind(IF v = {} THEN "simple" ELSE "variable", n) IN
              /\ (~fetchOk => n = 0)
              /\ (n = 0 => v = {})
              /\ (v = {} => varOk)
              /\ IF ~fetchOk
                 THEN Replied("search", u, args, NoEnv, "search_failed", <<>>,
                              <<call>>)
                 ELSE IF n = 0
                 THEN Replied("search", u, args, env, "search_no_results",
                              <<>>, <<call>>)
                 ELSE Replied("search", u, args, env, "search_results", <<>>,
                              <<call>> \o VariationCalls(Records(n, v), varOk))

\* the callback data of the variation buttons of /update:
\* update_<product_id>_<variation id>_<price>_<stock>, None printed "None"
UpdateButtons(product_id, variations, price, stock) ==
    [i \in DOMAIN variations |->
       << StrInt(product_id), variations[i],
          IF price = <<>> THEN NoneStr ELSE price,
          IF stock = <<>> THEN NoneStr ELSE StrInt(stock[1]) >>]

\* /update <product_id> [price|-] [stock|-]: the three arguments parsed;
\* ok = FALSE when one of them raises ValueError
UpdateParse(args) ==
    LET id == ParseInt(args[1])
        pr == IF Len(args) > 1 /\ args[2] # Dash
              THEN ParseFloat(args[2]) ELSE [ok |-> TRUE, val |-> <<>>]
        st == IF Len(args) > 2 /\ args[3] # Dash
              THEN ParseInt(args[3]) ELSE [ok |-> TRUE, val |-> 0]
    IN [ ok |-> id.ok /\ pr.ok /\ st.ok,
         product_id |-> id.val,
         price |-> pr.val,
         stock |-> IF Len(args) > 2 /\ args[3] # Dash /\ st.ok
                   THEN <<st.val>> ELSE <<>> ]

\* /update: look the product up; a simple product is updated at once, a
\* variable one gets a button per variation that carries price and stock
update(u, args) ==
    /\ Running
    /\ IsAdmin(u)
    /\ IF Len(args) < 1
       THEN Replied("update", u, args, NoEnv, "update_usage", <<>>, <<>>)
       ELSE IF ~UpdateParse(args).ok
       THEN Replied("update", u, args, NoEnv, "update_invalid_input", <<>>, <<>>)
       ELSE \E getOk \in BOOLEAN, type \in {"simple", "variable"},
               varOk \in BOOLEAN, n \in 0..MaxVariations, putOk \in BOOLEAN :
              LET a    == UpdateParse(args)
                  pid  == StrInt(a.product_id)
                  get  == Get("products", pid, getOk)
                  getv == Call("GET", "variations", pid, <<>>, NoBody, varOk)
                  r    == update_product(pid, a.price, a.stock, <<>>, putOk)
              IN
              IF ~getOk
              THEN /\ type = "simple" /\ varOk /\ n = 0 /\ putOk
                   /\ Replied("update", u, args, NoEnv, "product_not_found",
                              <<>>, <<get>>)
              ELSE IF type = "variable"
              THEN /\ putOk
                   /\ (~varOk => n = 0)
                   /\ Replied("update", u, args, EnvKind(type, n),
                              IF ~varOk THEN "variations_failed"
                              ELSE IF n = 0 THEN "no_variations"
                              ELSE "select_variation",
                              IF varOk
                              THEN UpdateButtons(a.product_id, Variations(n),
                                                 a.price, a.stock)
                              ELSE <<>>,
                              <<get, getv>>)
              ELSE /\ varOk /\ n = 0
                   /\ (r.calls = <<>> => putOk)
                   /\ Replied("update", u, args, EnvKind(type, 0), r.message,
                              <<>>, <<get>> \o r.calls)

\* the lengths of the order and customer lists a fetch returns
ListLengths == {0, 2, 6}

\* /orders
orders(u) ==
    /\ Running
    /\ IsAdmin(u)
    /\ \E fetchOk \in BOOLEAN, n \in ListLengths :
         LET call == Call("GET", "orders", <<>>, <<>>, NoBody, fetchOk)
             res  == format_orders(Records(n, {}), 0, PerPage) IN
         /\ (~fetchOk => n = 0)
         /\ IF ~fetchOk
            THEN Replied("orders", u, <<>>, NoEnv, "orders_failed", <<>>, <<call>>)
            ELSE Replied("orders", u, <<>>, EnvKind(res.kind, n), "order_list",
                         [i \in DOMAIN res.nav |-> <<StrInt(res.nav[i].target)>>],
                         <<call>>)

status_options == <<W_pending, W_processing, W_completed, W_cancelled>>

\* format_order_details: a button status_<order id>_<status> for each of
\* the four statuses but the order's own
StatusButtons(order_id, current) ==
    LET others == SelectSeq(status_options, LAMBDA st : st # current) IN
    [i \in DOMAIN others |-> <<order_id, others[i]>>]

\* /order <order_id>
order(u, args) ==
    /\ Running
    /\ IsAdmin(u)
    /\ IF args = <<>>
       THEN Replied("order", u, args, NoEnv, "order_usage", <<>>, <<>>)
       ELSE IF ~ParseInt(args[1]).ok
       THEN Replied("order", u, args, NoEnv, "order_invalid_id", <<>>, <<>>)
       ELSE \E fetchOk \in BOOLEAN, current \in {W_pending, W_completed} :
              LET oid  == StrInt(ParseInt(args[1]).val)
                  call == Call("GET", "orders", oid, <<>>, NoBody, fetchOk) IN
              /\ (~fetchOk => current = W_pending)
              /\ IF ~fetchOk
                 THEN Replied("order", u, args, NoEnv, "order_not_found", <<>>,
                              <<call>>)
                 ELSE Replied("order", u, args, NoEnv, "order_details",
                              StatusButtons(oid, current), <<call>>)

\* format_customers: the orders of every customer shown are fetched, a
\* failure counting as no orders
CustomerOrderCalls(shown, ok) ==
    [i \in DOMAIN shown |->
       Call("GET", "orders?customer", StrInt(shown[i].id), <<>>, NoBody, ok)]

\* /customers
customers(u) ==
    /\ Running
    /\ IsAdmin(u)
    /\ \E fetchOk \in BOOLEAN, n \in ListLengths, ordersOk \in BOOLEAN :
         LET call == Call("GET", "customers", <<>>, <<>>, NoBody, fetchOk)
             res  == format_customers(Records(n, {}), 0, PerPage) IN
         /\ (~fetchOk => n = 0)
         /\ (n = 0 => ordersOk)
         /\ IF ~fetchOk
            THEN Replied("customers", u, <<>>, NoEnv, "customers_failed", <<>>,
                         <<call>>)
            ELSE Replied("customers", u, <<>>, EnvKind(res.kind, n),
                         "customer_list",
                         [i \in DOMAIN res.nav |-> <<StrInt(res.nav[i].target)>>],
                         <<call>> \o CustomerOrderCalls(res.entries, ordersOk))

\* /customer <customer_id>
customer(u, args) ==
    /\ Running
    /\ IsAdmin(u)
    /\ IF args = <<>>
       THEN Replied("customer", u, args, NoEnv, "customer_usage", <<>>, <<>>)
       ELSE IF ~ParseInt(args[1]).ok
       THEN Replied("customer", u, args, NoEnv, "customer_invalid_id", <<>>, <<>>)
       ELSE \E fetchOk \in BOOLEAN, ordersOk \in BOOLEAN, n \in 0..1 :
              LET cid  == StrInt(ParseInt(args[1]).val)
                  get  == Call("GET", "customers", cid, <<>>, NoBody, fetchOk)
                  geto == Call("GET", "orders?customer", cid, <<>>, NoBody,
                               ordersOk) IN
              /\ (~fetchOk => ordersOk)
              /\ (~fetchOk \/ ~ordersOk => n = 0)
              /\ IF ~fetchOk
                 THEN Replied("customer", u, args, NoEnv, "customer_not_found",
                              <<>>, <<get>>)
                 ELSE IF ~ordersOk
                 THEN Replied("customer", u, args, NoEnv,
                              "customer_orders_failed", <<>>, <<get, geto>>)
                 ELSE Replied("customer", u, args, EnvKind("", n),
                              "customer_details",
                              [i \in 1..n |-> <<StrInt(i)>>], <<get, geto>>)

(************************ the other callbacks ******************************)
\* the callback data the bot puts on its buttons, beside the settings
\* tokens: <<token, parts>>
PageCallbacks ==
    { <<t, <<pg>>>> : t \in {"products", "orders", "customers"},
                      pg \in {W_0, W_1} }

UpdateCallbacks ==
    { <<"update", <<W_1, vid, price, stock>>>> :
        vid \in {W_3, W_4}, price \in {NoneStr, W_19_99},
        stock \in {NoneStr, W_7} }

\* the data of a callback query is chosen by the client: the status buttons
\* the bot shows, and one the bot never showed
StatusCallbacks ==
    { <<"status", <<W_7, st>>>> : st \in valid_statuses \cup {W_bogus} }

Callbacks ==
    { <<t, <<>>>> : t \in SettingsTokens }
    \cup PageCallbacks \cup UpdateCallbacks \cup StatusCallbacks
    \cup { <<"vars", <<W_1>>>>, <<"order", <<W_1>>>> }

\* a callback that changes no setting and ends with one reply
ButtonReplied(u, cb, env, key, buttons, calls) ==
    /\ \E ok \in SendOutcomes :
         Handled(Answered(WithArgs(
           Eff("button", u, <<cb[1]>>, env, SentButtons(key, buttons, ok),
               calls, 0, ~ok), cb[2])))
    /\ ReadOnly

\* button, products_<page> / orders_<page> / customers_<page>: fetch the
\* list again and show the page
ButtonPage(u, cb) ==
    /\ Running
    /\ IsAdmin(u)
    /\ \E fetchOk \in BOOLEAN, n \in 0..MaxProducts \cup ListLengths,
          v \in {{}, {1}}, subOk \in BOOLEAN :
         LET page == ParseInt(cb[2][1]).val
             call == Call("GET", cb[1], <<>>, <<>>, NoBody, fetchOk)
             list == Records(n, v)
             res  == CASE cb[1] = "products" -> format_products(list, page, PerPage)
                       [] cb[1] = "orders" -> format_orders(list, page, PerPage)
                       [] cb[1] = "customers" -> format_customers(list, page, PerPage)
             sub  == CASE cb[1] = "products" -> VariationCalls(res.entries, subOk)
                       [] cb[1] = "orders" -> <<>>
                       [] cb[1] = "customers" -> CustomerOrderCalls(res.entries, subOk)
         IN
         /\ (cb[1] = "products" => n \in 0..MaxProducts)
         /\ (cb[1] # "products" => n \in ListLengths /\ v = {})
         /\ (~fetchOk => n = 0)
         /\ (n = 0 => v = {})
         /\ (sub = <<>> \/ ~fetchOk => subOk)
         /\ IF ~fetchOk
            THEN ButtonReplied(u, cb, NoEnv, "fetch_failed", <<>>, <<call>>)
            ELSE ButtonReplied(u, cb,
                               EnvKind(IF v = {} THEN "simple" ELSE "variable", n),
                               res.kind,
                               [i \in DOMAIN res.nav |->
                                  <<StrInt(res.nav[i].target)>>],
                               <<call>> \o sub)

\* button, vars_<product id>: format_variations
ButtonVars(u, cb) ==
    /\ Running
    /\ IsAdmin(u)
    /\ \E fetchOk \in BOOLEAN, n \in 0..MaxVariations :
         LET call == Call("GET", "variations", cb[2][1], <<>>, NoBody, fetchOk) IN
         /\ (~fetchOk => n = 0)
         /\ ButtonReplied(u, cb, EnvKind("", n),
                          IF ~fetchOk \/ n = 0 THEN "no_variations_found"
                          ELSE "variation_list", <<>>, <<call>>)

\* button, update_<product id>_<variation id>_<price>_<stock>
ButtonUpdate(u, cb) ==
    /\ Running
    /\ IsAdmin(u)
    /\ \E putOk \in BOOLEAN :
         LET parts == cb[2]
             price == IF parts[3] # NoneStr THEN ParseFloat(parts[3]).val ELSE <<>>
             stock == IF parts[4] # NoneStr THEN <<ParseInt(parts[4]).val>>
                      ELSE <<>>
             r == update_product(parts[1], price, stock, parts[2], putOk) IN
         /\ (r.calls = <<>> => putOk)
         /\ ButtonReplied(u, cb, NoEnv, r.message, <<>>, r.calls)

\* button, status_<order id>_<status>: update, then show the order again
ButtonStatus(u, cb) ==
    /\ Running
    /\ IsAdmin(u)
    /\ \E putOk \in BOOLEAN, fetchOk \in BOOLEAN :
         LET r == update_order_status(cb[2][1], cb[2][2], putOk)
             get == Call("GET", "orders", cb[2][1], <<>>, NoBody, fetchOk) IN
         /\ (~putOk => fetchOk)
         /\ IF ~putOk
            THEN ButtonReplied(u, cb, NoEnv, "status_failed", <<>>, r.calls)
            ELSE IF ~fetchOk
            THEN ButtonReplied(u, cb, NoEnv, "refresh_failed", <<>>,
                               r.calls \o <<get>>)
            ELSE ButtonReplied(u, cb, NoEnv, "order_details",
                               StatusButtons(cb[2][1], Lower(cb[2][2])),
                               r.calls \o <<get>>)

\* button, order_<order id>
ButtonOrder(u, cb) ==
    /\ Running
    /\ IsAdmin(u)
    /\ \E fetchOk \in BOOLEAN, current \in {W_pending, W_completed} :
         LET get == Call("GET", "orders", cb[2][1], <<>>, NoBody, fetchOk) IN
         /\ (~fetchOk => current = W_pending)
         /\ IF ~fetchOk
            THEN ButtonReplied(u, cb, NoEnv, "order_not_found", <<>>, <<get>>)
            ELSE ButtonReplied(u, cb, NoEnv, "order_details",
                               StatusButtons(cb[2][1], current), <<get>>)

(***************************** the program **********************************)
\* the process over its life: starts and stops, the monitor, the callbacks
\* and answers that set what the monitor reads, and every handler's refusal
\* of a stranger
Next ==
    \/ Main
    \/ Stop
    \/ HandlerDone
    \/ check_low_stock
    \/ \E u \in Users, cb \in Callbacks : ButtonAnswerFails(u, cb)
    \/ \E u \in Users, cb \in Callbacks : ButtonDenied(u, cb)
    \/ \E u \in Users :
         ButtonToggle(u, "toggle_low_stock", "notify_low_stock") /\ UNCHANGED muted
    \/ \E u \in Users :
         ButtonToggle(u, "toggle_new_orders", "notify_new_orders") /\ UNCHANGED muted
    \/ \E u \in Users :
         ButtonPrompt(u, "set_threshold", "threshold_prompt", "awaiting_threshold")
    \/ \E u \in Users :
         ButtonPrompt(u, "watch_product", "watch_prompt", "awaiting_watch_product")
    \/ \E u \in Users :
         ButtonPrompt(u, "set_currency", "currency_prompt", "awaiting_currency")
    \/ \E u \in Users, text \in Texts : TextDenied(u, text)
    \/ \E u \in Users, text \in Texts : TextThreshold(u, text)
    \/ \E u \in Users, text \in Texts : TextWatchProduct(u, text)
    \/ \E u \in Users, text \in Texts : TextCurrency(u, text)
    \/ \E u \in Users, text \in Texts : TextIgnored(u, text)
    \/ \E u \in Users, cmd \in Commands :
         \E args \in ArgsOf(cmd) : CommandDenied(u, cmd, args)

Spec == Init /\ [][Next]_vars

\* the commands and the callbacks the monitor does not depend on, in a
\* process that has just started for the first time
InitCmd ==
    /\ proc = "up"
    /\ scheduled = TRUE
    /\ bot_data = [DefaultSettings EXCEPT !.is_running = TRUE]
    /\ file = NoFile
    /\ user_data = [u \in Users |-> NoFlags]
    /\ last = IdleEff
    /\ hist = NoHist
    /\ sendFails = 0
    /\ fmt = NoFmt
    /\ config = ConfigKeys
    /\ muted = FALSE
    /\ mon = NoMon

NextCmd ==
    \/ HandlerDone
    \/ \E u \in Users, cmd \in Commands :
         \E args \in ArgsOf(cmd) : CommandDenied(u, cmd, args)
    \/ \E u \in Users, cb \in Callbacks : ButtonAnswerFails(u, cb)
    \/ \E u \in Users, cb \in Callbacks : ButtonDenied(u, cb)
    \/ \E u \in Users : CommandSimple(u, "start", "welcome")
    \/ \E u \in Users : CommandSimple(u, "help", "help")
    \/ \E u \in Users : CommandSimple(u, "settings", "settings")
    \/ \E u \in Users : stats(u)
    \/ \E u \in Users, args \in BulkArgs : bulkupdate(u, args)
    \/ \E u \in Users : products(u)
    \/ \E u \in Users, args \in ArgsOf("search") : search(u, args)
    \/ \E u \in Users, args \in UpdateArgs : update(u, args)
    \/ \E u \in Users : orders(u)
    \/ \E u \in Users, args \in ArgsOf("order") : order(u, args)
    \/ \E u \in Users : customers(u)
    \/ \E u \in Users, args \in ArgsOf("customer") : customer(u, args)
    \/ \E u \in Users, cb \in PageCallbacks : ButtonPage(u, cb)
    \/ \E u \in Users : ButtonVars(u, <<"vars", <<W_1>>>>)
    \/ \E u \in Users, cb \in UpdateCallbacks : ButtonUpdate(u, cb)
    \/ \E u \in Users, cb \in StatusCallbacks : ButtonStatus(u, cb)
    \/ \E u \in Users : ButtonOrder(u, <<"order", <<W_1>>>>)
    \/ \E u \in Users : ButtonToggleLang(u)

SpecCmd == InitCmd /\ [][NextCmd]_vars

(******************* the process and its configuration **********************)
\* get_woocommerce_api(): the three store values are all set; it raises
\* ValueError otherwise, which the fetch_* functions turn into None
StoreConfigured(cfg) ==
    {"WOOCOMMERCE_API_KEY", "WOOCOMMERCE_API_SECRET", "WOOCOMMERCE_STORE_URL"}
      \subseteq cfg

\* any part of the configuration may be missing when the process is started
InitCfg ==
    /\ proc = "down"
    /\ scheduled = FALSE
    /\ bot_data = DefaultSettings
    /\ file = NoFile
    /\ user_data = [u \in Users |-> NoFlags]
    /\ last = IdleEff
    /\ hist = NoHist
    /\ sendFails = 0
    /\ fmt = NoFmt
    /\ config \in SUBSET ConfigKeys
    /\ muted = FALSE
    /\ mon = NoMon

\* main() without TELEGRAM_BOT_TOKEN: ValueError, the process ends
StartupFails ==
    /\ proc = "down"
    /\ Idle
    /\ "TELEGRAM_BOT_TOKEN" \notin config
    /\ proc' = "failed"
    /\ Handled(Eff("main", 0, <<>>, NoEnv, <<>>, <<>>, 0, TRUE))
    /\ UNCHANGED <<scheduled, bot_data, file, user_data, hist, fmt, config, muted,
                   mon>>

\* main() with the token: settings loaded, job scheduled, the connection
\* test (a request only when the store values are set), then polling
MainCfg ==
    /\ proc = "down"
    /\ Idle
    /\ "TELEGRAM_BOT_TOKEN" \in config
    /\ \E apiOk \in BOOLEAN :
         LET loaded == load_settings IN
         /\ (~StoreConfigured(config) => apiOk)
         /\ bot_data' = [loaded EXCEPT !.is_running = TRUE]
         /\ scheduled' = ScheduleOnStart(loaded)
         /\ Handled(Eff("main", 0, <<>>, NoEnv, <<>>,
                        IF StoreConfigured(config)
                        THEN <<Get("products", <<>>, apiOk)>> ELSE <<>>,
                        0, FALSE))
    /\ proc' = "up"
    /\ hist' = NoHist
    /\ UNCHANGED <<file, user_data, fmt, config, muted, mon>>

\* /products under the configuration: check_admin refuses everyone when
\* ADMIN_IDS is not set; fetch_products() is None when the store is not
\* configured
ProductsCfg(u) ==
    /\ Running
    /\ IF "ADMIN_IDS" \notin config
       THEN Replied("products", u, <<>>, NoEnv, "not_authorized", <<>>, <<>>)
       ELSE IF ~IsAdmin(u)
       THEN CommandDenied(u, "products", <<>>)
       ELSE IF ~StoreConfigured(config)
       THEN Replied("products", u, <<>>, NoEnv, "products_failed", <<>>, <<>>)
       ELSE products(u)

\* check_low_stock under the configuration: it returns when
\* TELEGRAM_CHAT_ID is not set (data <<"no_chat">>); every fetch is None
\* when the store is not configured
MonitorCfg ==
    /\ Running
    /\ scheduled
    /\ IF "TELEGRAM_CHAT_ID" \notin config
       THEN /\ Handled(Eff("check_low_stock", 0, <<"no_chat">>, NoEnv, <<>>, <<>>,
                           0, FALSE))
            /\ ReadOnly
       ELSE IF ~StoreConfigured(config)
       THEN /\ \E sendOk \in SendOutcomes :
                 Handled(Eff("check_low_stock", 0, <<"on">>,
                             Env(MaxRetries + 1, <<>>),
                             Sent("api_error", sendOk), <<>>, 0, ~sendOk))
            /\ ReadOnly
       ELSE check_low_stock

NextCfg ==
    \/ StartupFails
    \/ MainCfg
    \/ HandlerDone
    \/ \E u \in Users : ProductsCfg(u)
    \/ MonitorCfg

SpecCfg == InitCfg /\ [][NextCfg]_vars

(********************* the formatters on their own *************************)
\* a list of n records and a page index, before any formatter is applied
InitFmt ==
    /\ proc = "down"
    /\ scheduled = FALSE
    /\ bot_data = DefaultSettings
    /\ file = NoFile
    /\ user_data = [u \in Users |-> NoFlags]
    /\ last = IdleEff
    /\ hist = NoHist
    /\ sendFails = 0
    /\ \E n \in 0..MaxRecords, v \in VariableSets, page \in 0..MaxPage :
         fmt = [NoFmt EXCEPT !.n = n, !.variable = v, !.page = page]
    /\ config = ConfigKeys
    /\ muted = FALSE
    /\ mon = NoMon

Formatted(fn, res) ==
    /\ fmt.fn = ""
    /\ fmt' = [fmt EXCEPT !.fn = fn, !.res = res]
    /\ UNCHANGED <<proc, scheduled, bot_data, file, user_data, last, hist,
                   sendFails, config, muted, mon>>

FormatProducts ==
    Formatted("format_products",
              format_products(Records(fmt.n, fmt.variable), fmt.page, PerPage))

FormatOrders ==
    Formatted("format_orders",
              format_orders(Records(fmt.n, {}), fmt.page, PerPage))

FormatCustomers ==
    Formatted("format_customers",
              format_customers(Records(fmt.n, {}), fmt.page, PerPage))

NextFmt == FormatProducts \/ FormatOrders \/ FormatCustomers

SpecFmt == InitFmt /\ [][NextFmt]_vars

(************ the monitor, the low-stock toggle and restarts ***************)
\* muted: toggle_low_stock has turned the notifications off and has not
\* turned them on again since; unlike bot_data it outlives the process
NextMon ==
    \/ Main
    \/ Stop
    \/ HandlerDone
    \/ check_low_stock
    \/ \E u \in Users :
         /\ ButtonToggle(u, "toggle_low_stock", "notify_low_stock")
         /\ muted' = ~bot_data'.notify_low_stock
    \/ \E u \in Users :
         ButtonToggle(u, "toggle_new_orders", "notify_new_orders") /\ UNCHANGED muted

SpecMon == Init /\ [][NextMon]_vars

(************** the monitor interleaved with the handlers ******************)
\* The job and the handlers are coroutines of one event loop: a coroutine is
\* left only at an await.  check_low_stock awaits nothing but its sends
\* (fetch_products is a blocking call), so it runs in two pieces: from its
\* first line to the send, and the end of the send.  mon.reads holds the
\* settings record as it was at each of the job's reads: the first test, the
\* language and currency, the threshold and watched id.  A handler changes
\* bot_data in one piece, before the reply it awaits.

\* a faulty event loop: the job can also be left while it fetches
Suspended_DuringFetch(pc) == pc \in {"idle", "send", "fetch"}

\* the places where the job is not running and a handler may run
Suspended(pc) == pc \in {"idle", "send"}

\* check_low_stock up to the fetch: the first test, language and currency
MonBegin ==
    /\ proc = "up"
    /\ scheduled
    /\ mon.pc = "idle"
    /\ mon' = IF ~bot_data.is_running \/ ~bot_data.notify_low_stock
              THEN [pc |-> "idle", reads |-> <<bot_data>>, out |-> <<>>]
              ELSE [pc |-> "fetch", reads |-> <<bot_data, bot_data>>,
                    out |-> <<>>]
    /\ UNCHANGED <<proc, scheduled, bot_data, file, user_data, last, hist,
                   sendFails, fmt, config, muted>>

\* check_low_stock from the fetch to its send: the fetch and its retries,
\* the threshold and watched id, the sweep, the message
MonFetch ==
    /\ mon.pc = "fetch"
    /\ \E fails \in 0..MaxFails, pl \in ProductLists :
         LET r     == FetchWithRetry(fails, pl)
             lang  == mon.reads[2].language
             cur   == mon.reads[2].currency
             thr   == bot_data.low_stock_threshold
             sweep == LowStockProducts(r.products.list, thr)
             w     == WatchedStep(r.products.list, sweep,
                                  bot_data.watched_product_id, thr)
             text(key, items) ==
                 <<[key |-> key, lang |-> lang, currency |-> cur,
                    items |-> items]>>
         IN
         IF ~r.products.ok
         THEN /\ pl = <<>>
              /\ mon' = [mon EXCEPT !.pc = "send",
                                    !.out = text("api_error", <<>>)]
         ELSE IF w.raised \/ w.low = <<>>
         THEN mon' = [pc |-> "idle", reads |-> Append(mon.reads, bot_data),
                      out |-> <<>>]
         ELSE mon' = [pc |-> "send", reads |-> Append(mon.reads, bot_data),
                      out |-> text("low_stock_alert", w.low)]
    /\ UNCHANGED <<proc, scheduled, bot_data, file, user_data, last, hist,
                   sendFails, fmt, config, muted>>

\* check_low_stock after its send, whatever became of the message
MonSent ==
    /\ mon.pc = "send"
    /\ mon' = NoMon
    /\ UNCHANGED <<proc, scheduled, bot_data, file, user_data, last, hist,
                   sendFails, fmt, config, muted>>

\* a handler runs while the job is suspended; its replies are delivered
\* (a reply that raises changes what is saved, not what the job reads)
Interleaved(handler) ==
    /\ Suspended(mon.pc)
    /\ handler
    /\ ~last'.err

NextConc ==
    \/ MonBegin
    \/ MonFetch
    \/ MonSent
    \/ Interleaved(HandlerDone)
    \/ \E u \in AdminIds :
         Interleaved(ButtonToggle(u, "toggle_low_stock", "notify_low_stock"))
         /\ UNCHANGED muted
    \/ \E u \in AdminIds : Interleaved(ButtonToggleLang(u))
    \/ \E u \in AdminIds :
         Interleaved(ButtonPrompt(u, "set_threshold", "threshold_prompt",
                                  "awaiting_threshold"))
    \/ \E u \in AdminIds :
         Interleaved(ButtonPrompt(u, "watch_product", "watch_prompt",
                                  "awaiting_watch_product"))
    \/ \E u \in AdminIds :
         Interleaved(ButtonPrompt(u, "set_currency", "currency_prompt",
                                  "awaiting_currency"))
    \/ \E u \in AdminIds, text \in Texts : Interleaved(TextThreshold(u, text))
    \/ \E u \in AdminIds, text \in Texts : Interleaved(TextWatchProduct(u, text))
    \/ \E u \in AdminIds, text \in Texts : Interleaved(TextCurrency(u, text))

SpecConc == InitCmd /\ [][NextConc]_vars

(****************** the settings and the administrator *********************)
\* every operation that changes a setting, with restarts, for the senders
\* check_admin lets through
NextSet ==
    \/ Main
    \/ Stop
    \/ HandlerDone
    \/ \E u \in AdminIds :
         ButtonToggle(u, "toggle_low_stock", "notify_low_stock") /\ UNCHANGED muted
    \/ \E u \in AdminIds :
         ButtonToggle(u, "toggle_new_orders", "notify_new_orders") /\ UNCHANGED muted
    \/ \E u \in AdminIds : ButtonToggleLang(u)
    \/ \E u \in AdminIds :
         ButtonPrompt(u, "set_threshold", "threshold_prompt", "awaiting_threshold")
    \/ \E u \in AdminIds :
         ButtonPrompt(u, "watch_product", "watch_prompt", "awaiting_watch_product")
    \/ \E u \in AdminIds :
         ButtonPrompt(u, "set_currency", "currency_prompt", "awaiting_currency")
    \/ \E u \in AdminIds, text \in Texts : TextThreshold(u, text)
    \/ \E u \in AdminIds, text \in Texts : TextWatchProduct(u, text)
    \/ \E u \in AdminIds, text \in Texts : TextCurrency(u, text)
    \/ \E u \in AdminIds, text \in Texts : TextIgnored(u, text)

SpecSet == Init /\ [][NextSet]_vars

(******************************* properties *********************************)
\* C1 (as stated): in an enabled monitor cycle whose product fetch fails 3
\* consecutive times, exactly one repeated-failure alert is sent and no
\* low-stock alert, whatever a further fetch returns.
C1_ThreeFailuresOneAlert ==
    (last.op = "check_low_stock" /\ last.data = <<"on">> /\ last.env.fails >= 3)
    => /\ Len(last.out) = 1
       /\ Count(last.out, "api_error") = 1
       /\ Count(last.out, "low_stock_alert") = 0

\* C2: a handler run for a sender outside the allow-list changes neither the
\* settings, nor an awaiting flag, nor the settings file, calls the store
\* never, and sends nothing but the "not authorized" message (exactly one,
\* unless the callback's acknowledgement already failed).
C2_UnauthorizedNoEffect ==
    [][ ( /\ last.op = "idle"
          /\ last'.op \in {"button", "handle_text"} \cup Commands
          /\ last'.sender \notin AdminIds )
        => /\ UNCHANGED <<bot_data, user_data, file>>
           /\ last'.calls = <<>>
           /\ last'.writes = 0
           /\ \A i \in DOMAIN last'.out : last'.out[i].key = "not_authorized"
           /\ (last'.ack # "failed" => Len(last'.out) = 1) ]_vars

\* a stranger's command has been answered with the refusal
C2_Witness ==
    /\ last.op = "bulkupdate"
    /\ last.sender \notin AdminIds
    /\ Len(last.out) = 1
    /\ last.out[1].key = "not_authorized"
    /\ last.out[1].ok

\* C3 (as stated): for each conversation at most one of the three awaiting
\* flags is true in every reachable state.
C3_AtMostOneAwaiting ==
    \A u \in Users :
      Cardinality({f \in DOMAIN user_data[u] : user_data[u][f]}) <= 1

\* C4 (as stated, the half the rest depends on): after every process start
\* with low-stock notifications enabled the monitor's periodic job is
\* scheduled.
C4_ScheduledAfterStart ==
    (proc = "up" /\ bot_data.notify_low_stock) => scheduled

\* C5 (as stated): the same toggle applied twice in a row by an authorized
\* sender returns the setting to its value before the first toggle and
\* writes the settings file exactly twice.
C5_ToggleTwice ==
    [][ ( /\ hist.token # ""
          /\ last.op = "idle"
          /\ last'.op = "button"
          /\ last'.data = <<hist.token>>
          /\ last'.ack = "ok"
          /\ last'.sender \in AdminIds )
        => LET field == IF hist.token = "toggle_low_stock"
                        THEN "notify_low_stock" ELSE "notify_new_orders" IN
           /\ bot_data'[field] = hist.before
           /\ hist.writes + last'.writes = 2 ]_vars

\* C9: in a monitor cycle the watched product is listed at most once in the
\* alert, and exactly once when the threshold sweep has found it.
C9_WatchedListedOnce ==
    (last.op = "check_low_stock" /\ bot_data.watched_product_id # None)
    => \A m \in DOMAIN last.out :
         last.out[m].key = "low_stock_alert" =>
           LET items == last.out[m].items
               hits  == {i \in DOMAIN items :
                           StrInt(items[i].id) = bot_data.watched_product_id}
               swept == \E k \in DOMAIN last.env.pl :
                          /\ StrInt(k) = bot_data.watched_product_id
                          /\ last.env.pl[k] # Null
                          /\ last.env.pl[k][1] <= bot_data.low_stock_threshold
           IN /\ Cardinality(hits) <= 1
              /\ (swept => Cardinality(hits) = 1)

\* an alert that lists the watched product, which the sweep had found
C9_Witness ==
    /\ last.op = "check_low_stock"
    /\ bot_data.watched_product_id # None
    /\ Len(last.out) = 1
    /\ last.out[1].key = "low_stock_alert"
    /\ \E i \in DOMAIN last.out[1].items :
         StrInt(last.out[1].items[i].id) = bot_data.watched_product_id

C6_NoValuesNoRequest ==
    LET a == last.args
        command  == /\ last.op = "update"
                    /\ Len(a) >= 1
                    /\ ParseInt(a[1]).ok
                    /\ (Len(a) >= 2 => a[2] = Dash)
                    /\ (Len(a) >= 3 => a[3] = Dash)
                    /\ last.env.kind = "simple"
        callback == /\ last.op = "button"
                    /\ last.data = <<"update">>
                    /\ last.ack = "ok"
                    /\ a[3] = NoneStr
                    /\ a[4] = NoneStr
    IN (last.sender \in AdminIds /\ (command \/ callback))
       => /\ \A i \in DOMAIN last.calls : last.calls[i].verb = "GET"
          /\ (callback => last.calls = <<>>)
          /\ (command => Len(last.calls) = 1)
          /\ Len(last.out) = 1
          /\ last.out[1].key = "no_updates"

\* the callback of a variation button that carries neither value has been
\* answered
C6_Witness ==
    /\ last.op = "button"
    /\ last.data = <<"update">>
    /\ last.sender \in AdminIds
    /\ last.args[3] = NoneStr
    /\ last.args[4] = NoneStr
    /\ Len(last.out) = 1
    /\ last.out[1].key = "no_updates"

\* C7: a free-text answer that fails the validation of the open prompt
\* leaves the settings, the settings file and the awaiting flags as they
\* were, writes nothing, and the handler's one message is the error message
\* of that prompt.
C7_InvalidAnswerKeepsPrompt ==
    [][ LET u     == last'.sender
            text  == last'.data
            flags == user_data[u]
            n     == ParseInt(text)
            bad_threshold ==
                /\ flags.awaiting_threshold
                /\ ~(n.ok /\ n.val >= 0)
            bad_product ==
                /\ ~flags.awaiting_threshold
                /\ flags.awaiting_watch_product
                /\ \/ ~n.ok
                   \/ last'.env.fails >= 1
                   \/ n.val \notin DOMAIN last'.env.pl
            bad_currency ==
                /\ ~flags.awaiting_threshold
                /\ ~flags.awaiting_watch_product
                /\ flags.awaiting_currency
                /\ Upper(text) \notin {USD, EUR, IRR, IRT}
        IN
        ( /\ last.op = "idle"
          /\ last'.op = "handle_text"
          /\ u \in AdminIds
          /\ (bad_threshold \/ bad_product \/ bad_currency) )
        => /\ UNCHANGED <<bot_data, file, user_data>>
           /\ last'.writes = 0
           /\ Len(last'.out) = 1
           /\ last'.out[1].key =
                IF bad_threshold THEN "threshold_error"
                ELSE IF bad_product THEN "watch_error"
                ELSE "currency_error" ]_vars

\* a negative threshold has been refused and the prompt is still open
C7_Witness ==
    /\ last.op = "handle_text"
    /\ last.data = <<"-", "1">>
    /\ Len(last.out) = 1
    /\ last.out[1].key = "threshold_error"
    /\ last.out[1].ok
    /\ user_data[last.sender].awaiting_threshold

\* C8 (as stated): for every n >= 0 and page p, a paginated formatter lists
\* min(5, n - 5p) records with the footer "Page p+1 of ceil(n/5)" when
\* p < ceil(n/5), and gives the "No more ... to show" sentinel without
\* buttons when p >= ceil(n/5).
C8_PagesAsStated ==
    fmt.fn # "" =>
      LET n == fmt.n
          p == fmt.page
          ceil == CHOOSE k \in 0..n : 5 * k >= n /\ (k = 0 \/ 5 * (k - 1) < n)
      IN IF p < ceil
         THEN /\ fmt.res.kind = "page"
              /\ Len(fmt.res.entries) = Min(5, n - 5 * p)
              /\ fmt.res.footer = <<p + 1, ceil>>
         ELSE /\ fmt.res.kind = "no_more"
              /\ fmt.res.nav = <<>>
              /\ fmt.res.vars = <<>>
              /\ ~fmt.res.markup

\* C8 (amended): the same for n >= 1, the page listing records 5p+1 ..
\* 5p+min(5, n-5p); for n = 0 every page gives the "No ... found" message
\* without buttons, not the sentinel.
C8_PagesNonEmpty ==
    fmt.fn # "" =>
      LET n == fmt.n
          p == fmt.page
          ceil == CHOOSE k \in 0..n : 5 * k >= n /\ (k = 0 \/ 5 * (k - 1) < n)
      IN IF n = 0
         THEN /\ fmt.res.kind = "empty"
              /\ fmt.res.nav = <<>>
              /\ fmt.res.vars = <<>>
              /\ ~fmt.res.markup
         ELSE IF p < ceil
         THEN /\ fmt.res.kind = "page"
              /\ Len(fmt.res.entries) = Min(5, n - 5 * p)
              /\ \A i \in DOMAIN fmt.res.entries :
                   fmt.res.entries[i].id = 5 * p + i
              /\ fmt.res.footer = <<p + 1, ceil>>
         ELSE /\ fmt.res.kind = "no_more"
              /\ fmt.res.nav = <<>>
              /\ fmt.res.vars = <<>>
              /\ ~fmt.res.markup

\* a last page that is not full has been formatted
C8_Witness ==
    /\ fmt.fn = "format_products"
    /\ fmt.n = 11
    /\ fmt.page = 2
    /\ fmt.res.kind = "page"
    /\ Len(fmt.res.entries) = 1
    /\ fmt.res.footer = <<3, 3>>

\* C11 (as stated): when a required configuration value is absent at
\* startup the process fails at startup: it never polls, and no update and
\* no monitor cycle is ever handled.
C11_IncompleteConfigNeverRuns ==
    config # ConfigKeys =>
      /\ proc # "up"
      /\ last.op \in {"idle", "main"}

\* C12 (as stated): /bulkupdate from an administrator with a valid type and
\* value and k ids issues exactly k update requests, the i-th for the i-th
\* id, and sends exactly k replies; with an invalid type, status or value it
\* issues no request.
C12_BulkOnePerId ==
    (last.op = "bulkupdate" /\ IsAdmin(last.sender)) =>
      IF BulkReject(last.args) # ""
      THEN last.calls = <<>>
      ELSE LET k == Len(last.args) - 2 IN
           /\ Len(last.calls) = k
           /\ Len(last.out) = k
           /\ \A i \in 1..k :
                last.calls[i] = BulkOne(last.args, i, last.calls[i].ok).calls[1]

\* C14 (as stated): a monitor cycle fetches the product collection at most
\* three times, the first attempt included.
C14_AtMostThreeFetches ==
    last.op = "check_low_stock" => Len(last.calls) <= 3

\* C16 (as stated): no monitor cycle ends with an unhandled error.
C16_CycleNeverRaises ==
    last.op = "check_low_stock" => ~last.err

\* handle_text's if / elif chain: the prompt a free-text message answers
Awaited(flags) ==
    IF flags.awaiting_threshold THEN "set_threshold"
    ELSE IF flags.awaiting_watch_product THEN "watch_product"
    ELSE IF flags.awaiting_currency THEN "set_currency"
    ELSE ""

\* C15 (as stated): once a prompt callback has been handled, the sender's
\* next free-text message is parsed as the answer to that prompt, also when
\* another prompt was pressed just before it.
C15_LatestPromptAnswered ==
    ( /\ last.op = "button"
      /\ last.data[1] \in {"set_threshold", "watch_product", "set_currency"}
      /\ IsAdmin(last.sender)
      /\ ~last.err )
    => Awaited(user_data[last.sender]) = last.data[1]

\* C19 (as stated): a handler that changes a settings field has written the
\* full record to disk when it finishes, also when its confirmation reply
\* failed to send: the persisted record then equals the settings in memory.
C19_ChangePersisted ==
    [][ (bot_data' # bot_data /\ last'.op \in {"button", "handle_text"})
          => file' = save_settings(bot_data') ]_vars

\* C18 (as stated): a command or callback handler one of whose store
\* requests failed sends the user a message and ends without an unhandled
\* error (a handler may only be cut short by a send that raises).
C18_FailedCallReported ==
    ( /\ last.op \in Commands \cup {"button"}
      /\ \E i \in DOMAIN last.calls : ~last.calls[i].ok )
    => /\ last.out # <<>>
       /\ last.err => SendFailed(last)

\* C13: the update request of /update carries a price exactly when a price
\* was given and a stock exactly when a stock was given ("-" and a missing
\* argument give none), with the values given; the buttons /update shows for
\* a variable product carry the same values or absences, and the request the
\* update_ callback sends carries exactly what its token holds.
C13_PayloadAsSupplied ==
    LET given(parts, i, none) == Len(parts) >= i /\ parts[i] # none
        price(parts, i, none) ==
            IF given(parts, i, none) THEN ParseFloat(parts[i]).val ELSE <<>>
        stock(parts, i, none) ==
            IF given(parts, i, none) THEN <<ParseInt(parts[i]).val>> ELSE <<>>
        body(p, s) == [NoBody EXCEPT !.price = p, !.stock = s]
        puts == SelectSeq(last.calls, LAMBDA c : c.verb = "PUT")
        sent(p, s) ==
            IF p = <<>> /\ s = <<>>
            THEN puts = <<>>
            ELSE Len(puts) = 1 /\ puts[1].body = body(p, s)
    IN
    /\ ( /\ last.op = "update"
         /\ IsAdmin(last.sender)
         /\ Len(last.args) >= 1
         /\ UpdateParse(last.args).ok
         /\ last.calls[1].ok )
       => LET p == price(last.args, 2, Dash)
              s == stock(last.args, 3, Dash) IN
          IF last.env.kind = "variable"
          THEN /\ puts = <<>>
               /\ \A i \in DOMAIN last.out[1].buttons :
                    LET b == last.out[1].buttons[i] IN
                    /\ price(b, 3, NoneStr) = p
                    /\ stock(b, 4, NoneStr) = s
          ELSE sent(p, s)
    /\ ( /\ last.op = "button"
         /\ last.data = <<"update">>
         /\ IsAdmin(last.sender)
         /\ last.ack = "ok" )
       => /\ sent(price(last.args, 3, NoneStr), stock(last.args, 4, NoneStr))
          /\ \A i \in DOMAIN puts :
               puts[i].id = last.args[1] /\ puts[i].vid = last.args[2]

\* "/update 1 19.99 -" on a simple product has sent the price alone
C13_Witness ==
    /\ last.op = "update"
    /\ last.args = <<W_1, W_19_99, Dash>>
    /\ last.env.kind = "simple"
    /\ Len(last.calls) = 2
    /\ last.calls[2].verb = "PUT"
    /\ last.calls[2].body = [NoBody EXCEPT !.price = W_19_99]

\* C17 (as stated): after toggle_low_stock has turned the notifications off,
\* a monitor cycle fetches nothing and sends nothing until they are toggled
\* on again.
C17_MutedNoAlert ==
    (last.op = "check_low_stock" /\ muted) =>
      last.calls = <<>> /\ last.out = <<>>

\* C20: with the job left only at its sends, the settings record is the same
\* at every read of one monitor cycle, and the message the cycle sends is
\* written in the language and currency of that one record.
C20_OneSettingsState ==
    /\ \A i, j \in DOMAIN mon.reads : mon.reads[i] = mon.reads[j]
    /\ \A k \in DOMAIN mon.out :
         /\ mon.out[k].lang = mon.reads[1].language
         /\ mon.out[k].currency = mon.reads[1].currency

\* an alert computed from all three reads waits to be sent while a handler
\* has since changed the settings
C20_Witness ==
    /\ mon.pc = "send"
    /\ Len(mon.reads) = 3
    /\ mon.out # <<>>
    /\ bot_data # mon.reads[3]

C22_SettingsInRange ==
    \A rec \in {bot_data} \cup (IF file.exists THEN {file.rec} ELSE {}) :
      /\ rec.low_stock_threshold \in Nat
      /\ rec.language \in {"en", "fa"}
      /\ rec.currency \in CURRENCY_SYMBOLS

\* threshold, language and currency have all been changed and saved
C22_Witness ==
    /\ bot_data.low_stock_threshold = 1
    /\ bot_data.language = "fa"
    /\ bot_data.currency = EUR
    /\ file = save_settings(bot_data)

\* C23: a settings-changing operation changes its own field of the settings
\* record and no other: the two toggles and toggle_lang change exactly
\* theirs, an accepted threshold, product id or currency sets theirs to the
\* accepted value.
C23_OneFieldChanged ==
    [][ LET changed == {f \in DOMAIN bot_data : bot_data'[f] # bot_data[f]}
            token   == last'.data[1]
            key     == last'.out[1].key
        IN
        /\ ( /\ last'.op = "button"
             /\ IsAdmin(last'.sender)
             /\ last'.ack = "ok"
             /\ last'.out # <<>> ) =>
             /\ token = "toggle_low_stock" => changed = {"notify_low_stock"}
             /\ token = "toggle_new_orders" => changed = {"notify_new_orders"}
             /\ token = "toggle_lang" => changed = {"language"}
             /\ token \notin {"toggle_low_stock", "toggle_new_orders",
                              "toggle_lang"} => changed = {}
        /\ ( /\ last'.op = "handle_text"
             /\ IsAdmin(last'.sender)
             /\ last'.out # <<>> ) =>
             /\ key = "threshold_set" =>
                  /\ changed \subseteq {"low_stock_threshold"}
                  /\ bot_data'.low_stock_threshold = ParseInt(last'.data).val
             /\ key = "watch_set" =>
                  /\ changed \subseteq {"watched_product_id"}
                  /\ bot_data'.watched_product_id =
                       StrInt(ParseInt(last'.data).val)
             /\ key = "currency_set" =>
                  /\ changed \subseteq {"currency"}
                  /\ bot_data'.currency = Upper(last'.data)
             /\ key \notin {"threshold_set", "watch_set", "currency_set"} =>
                  changed = {}
      ]_vars

\* an accepted currency has changed the currency and nothing else
C23_Witness ==
    /\ last.op = "handle_text"
    /\ last.out # <<>>
    /\ last.out[1].key = "currency_set"
    /\ bot_data = [DefaultSettings EXCEPT !.is_running = TRUE, !.currency = EUR]

C25_AlwaysRunning ==
    /\ proc = "up" => bot_data.is_running
    /\ file.exists => file.rec.is_running
    /\ (last.op = "check_low_stock" /\ last.data = <<"off">>)
         => ~bot_data.notify_low_stock

\* a monitor cycle has returned at its first test while the bot is running
C25_Witness ==
    /\ last.op = "check_low_stock"
    /\ last.data = <<"off">>
    /\ bot_data.is_running

\* C26 (as stated), the restart: once a watched product id is set and its
\* handler is over, a restart that loads the persisted settings finds a
\* watched product id set.
C26_WatchedSurvivesRestart ==
    (Running /\ bot_data.watched_product_id # None)
      => load_settings.watched_product_id # None

\* C27 (as stated): on a non-empty list a paginated formatter offers
\* Previous, to page - 1, exactly when page > 0, and Next, to page + 1,
\* exactly when a later page exists.
C27_NavAsStated ==
    (fmt.fn # "" /\ fmt.n >= 1) =>
      LET n == fmt.n
          p == fmt.page
          nav == fmt.res.nav
          ceil == CHOOSE k \in 0..n : 5 * k >= n /\ (k = 0 \/ 5 * (k - 1) < n)
      IN /\ (\E i \in DOMAIN nav : nav[i] = Button("Previous", p - 1)) <=> p > 0
         /\ (\E i \in DOMAIN nav : nav[i] = Button("Next", p + 1))
              <=> p + 1 < ceil

\* C27 (amended): the same on the pages that exist, 0 <= page < ceil(n/5),
\* where the row holds no other button and every button leads to a page that
\* exists; a page index past the last page gives the sentinel with no
\* button at all, Previous included.
C27_NavOnPages ==
    (fmt.fn # "" /\ fmt.n >= 1) =>
      LET n == fmt.n
          p == fmt.page
          nav == fmt.res.nav
          ceil == CHOOSE k \in 0..n : 5 * k >= n /\ (k = 0 \/ 5 * (k - 1) < n)
      IN IF p < ceil
         THEN /\ fmt.res.kind = "page"
              /\ (\E i \in DOMAIN nav : nav[i] = Button("Previous", p - 1))
                   <=> p > 0
              /\ (\E i \in DOMAIN nav : nav[i] = Button("Next", p + 1))
                   <=> p + 1 < ceil
              /\ \A i \in DOMAIN nav :
                   /\ nav[i] \in {Button("Previous", p - 1), Button("Next", p + 1)}
                   /\ nav[i].target \in 0..(ceil - 1)
         ELSE /\ fmt.res.kind = "no_more"
              /\ nav = <<>>

\* a middle page has been formatted with both buttons
C27_Witness ==
    /\ fmt.fn = "format_products"
    /\ fmt.n = 11
    /\ fmt.page = 1
    /\ fmt.res.nav = <<Button("Previous", 0), Button("Next", 2)>>

\* C28: a free-text message from an administrator changes at most one
\* settings field and clears at most one awaiting flag; when none of the
\* sender's three flags is set it changes no setting and no flag, writes
\* nothing to disk, calls the store not at all and sends no reply.
C28_TextFrame ==
    [][ (last'.op = "handle_text" /\ IsAdmin(last'.sender)) =>
          LET u       == last'.sender
              changed == {f \in DOMAIN bot_data : bot_data'[f] # bot_data[f]}
              cleared == {f \in DOMAIN NoFlags :
                            user_data[u][f] /\ ~user_data'[u][f]}
          IN
          /\ Cardinality(changed) <= 1
          /\ Cardinality(cleared) <= 1
          /\ \A v \in Users \ {u} : user_data'[v] = user_data[v]
          /\ user_data[u] = NoFlags =>
               /\ bot_data' = bot_data
               /\ user_data' = user_data
               /\ file' = file
               /\ last'.writes = 0
               /\ last'.calls = <<>>
               /\ last'.out = <<>>
               /\ ~last'.err
      ]_vars

\* a text sent while no flag was set has been handled
C28_Witness ==
    /\ last.op = "handle_text"
    /\ IsAdmin(last.sender)
    /\ user_data[last.sender] = NoFlags
    /\ last.out = <<>>
    /\ last.calls = <<>>
====
